---- MODULE Spec2Model ----
(***************************************************************************)
(* OCR arbitration of the Hagee document pipeline.                         *)
(*                                                                         *)
(*   SmartOCRService   (src/services/SmartOCRService.ts)  the arbiter:     *)
(*       static health state, extractTextFromImage in three modes,         *)
(*       resetFailureTracking, forceOfflineMode.                           *)
(*   MistralOCRService (src/unnamed/part_005)  the remote provider:        *)
(*       executeWithRetry, performOCR, enforceRateLimit.                   *)
(*   OfflineOCRService (src/services/OfflineOCRService.ts)  the local      *)
(*       provider: extractTextFromImage.                                   *)
(*                                                                         *)
(* JavaScript runs the code single-threaded and cooperatively: a call      *)
(* runs without interruption from one await to the next.  One action of    *)
(* the model is one such synchronous stretch of one call.  Several calls   *)
(* may be in flight together (a caller that lost a timeout race starts     *)
(* the next call while the abandoned one is still running).                *)
(* Time is the value of Date.now(), in milliseconds.                       *)
(***************************************************************************)
EXTENDS Integers, Sequences, FiniteSets, TLC

\* ---------------------------------------------------------------- bounds
NumCalls == 2
MaxOps == 3
MaxTicks == 4
MaxDocs == 2
MaxUnits == 2
MaxTextLen == 4

\* ------------------------------------------------------ program constants
MAX_CONSECUTIVE_FAILURES == 2
OFFLINE_COOLDOWN == 5 * 60 * 1000
MIN_REQUEST_INTERVAL == 5000
MAX_RETRIES == 3
BASE_DELAY == 2000

\* Date.now() when the process starts: far from the initial value 0 of
\* lastRequestTime and offlineUntil.
StartOfTime == 2 * MIN_REQUEST_INTERVAL
\* Smallest step of the clock the model distinguishes.
Quantum == MIN_REQUEST_INTERVAL \div 5
\* Durations a caller passes to forceOfflineMode (the second is the default).
ForceDurations == {Quantum, OFFLINE_COOLDOWN}

Calls == 1..NumCalls
Modes == {"auto", "online", "offline"}
None == -1
\* retry-after headers of a 429 response, in seconds (None: no header).
RetryAfterHeaders == {None, 10}

VARIABLES
    now,                  \* Date.now()
    ticks,                \* number of clock steps taken (bounds the run)
    ops,                  \* number of operations callers have invoked (bounds the run)
    consecutiveFailures,  \* SmartOCRService.consecutiveFailures
    isTemporarilyOffline, \* SmartOCRService.isTemporarilyOffline
    offlineUntil,         \* SmartOCRService.offlineUntil
    lastRequestTime,      \* MistralOCRService.lastRequestTime
    calls,                \* the extractTextFromImage calls in flight
    streak,               \* history: auto-mode remote failures in a row
    streakAt,             \* history: time of the second failure of the row
    lastSentAt,           \* history: time of the last outbound request
    throttleBroken,       \* history: two requests were sent < 5000 ms apart
    batch,                \* DocumentProcessingService.processBatch in progress
    doc,                  \* the document being processed
    chunker,              \* DocumentProcessingService.chunkTextForAPI in progress
    observed              \* what getStatus or getRecommendations has just returned

health == <<consecutiveFailures, isTemporarilyOffline, offlineUntil>>
hist == <<streak, streakAt>>
sent == <<lastSentAt, throttleBroken>>
\* The state of the OCR services, and the state of the document pipeline.
services == <<now, ticks, ops, consecutiveFailures, isTemporarilyOffline, offlineUntil,
              lastRequestTime, calls, streak, streakAt, lastSentAt,
              throttleBroken, observed>>
docs == <<batch, doc, chunker>>
vars == <<services, docs>>

\* The slot of a call that has not started (or has returned to its caller).
IdleCall ==
    [pc |-> "idle", mode |-> "none", atStart |-> "none", inWindow |-> FALSE,
     attempt |-> 0, wakeAt |-> 0, backoffs |-> <<>>, notBefore |-> 0,
     retryAfterUntil |-> 0,
     remote |-> "none", local |-> "none", fallbackArg |-> FALSE,
     counted |-> FALSE,
     threw |-> FALSE, source |-> "none", fallbackUsed |-> FALSE,
     text |-> "none"]

Pow2(n) == IF n = 0 THEN 1 ELSE IF n = 1 THEN 2 ELSE 4

\* ------------------------------------------------ SmartOCRService: guards
\* (mutant: the cooldown still holds at the instant of its expiry)
InCooldownInclusive == isTemporarilyOffline /\ now <= offlineUntil
\* line 33: if (this.isTemporarilyOffline && Date.now() < this.offlineUntil)
InCooldown == isTemporarilyOffline /\ now < offlineUntil
\* (mutant: the cooldown is left only after the instant of its expiry)
CooldownExpiredStrict == isTemporarilyOffline /\ now > offlineUntil
\* line 39: if (this.isTemporarilyOffline && Date.now() >= this.offlineUntil)
CooldownExpired == isTemporarilyOffline /\ now >= offlineUntil
\* (mutant: the first failure already starts the cooldown)
ShouldEnterCooldownEarly(cf) == cf >= 1
\* (mutant: the threshold must be exceeded, not reached)
ShouldEnterCooldownStrict(cf) == cf > MAX_CONSECUTIVE_FAILURES
\* line 68: if (this.consecutiveFailures >= this.MAX_CONSECUTIVE_FAILURES)
ShouldEnterCooldown(cf) == cf >= MAX_CONSECUTIVE_FAILURES
\* (mutant: the lazy exit from cooldown keeps the counter)
CountAfterCooldownKept == consecutiveFailures
\* line 42: this.consecutiveFailures = 0
CountAfterCooldown == 0
\* (mutant: the cooldown lasts one minute)
CooldownExpiryShort(t) == t + OFFLINE_COOLDOWN \div 5
\* line 71: this.offlineUntil = Date.now() + this.OFFLINE_COOLDOWN
CooldownExpiry(t) == t + OFFLINE_COOLDOWN

\* (mutant: online mode falls back to the local provider as well)
FallsBackAlways(mode) == mode \in {"auto", "online"}
\* lines 54-61: only auto mode wraps performOnlineOCR in a try/catch
FallsBackToLocal(mode) == mode = "auto"
\* performOnlineOCR lines 108-114: the result of a successful remote call
OnlineResult == [source |-> "mistral", fallbackUsed |-> FALSE, text |-> "text"]
\* (mutant: every local result is flagged as a fallback)
OfflineResultFlagged(o, fallbackUsed) ==
    [source |-> "offline", fallbackUsed |-> TRUE, text |-> o.text]
\* performOfflineOCR lines 139-145: the result built from the local one
OfflineResult(o, fallbackUsed) ==
    [source |-> "offline", fallbackUsed |-> fallbackUsed, text |-> o.text]
\* lines 81-95: the result that reports both errors
DiagnosticResult ==
    [source |-> "offline", fallbackUsed |-> TRUE, text |-> "diagnostic"]

\* The arbiter state as a call finds it, read off the state directly.
HealthAt ==
    IF ~isTemporarilyOffline THEN "normal"
    ELSE IF now < offlineUntil THEN "cooldown" ELSE "expired"

\* ----------------------------------------------- MistralOCRService: helpers
\* enforceRateLimit: waitTime, or 0 when the request may go out at once
RateLimitWait(t, last) ==
    IF t - last < MIN_REQUEST_INTERVAL
    THEN MIN_REQUEST_INTERVAL - (t - last) ELSE 0
\* (mutant: the delay does not grow)
BackoffDelayFlat(attempt) == BASE_DELAY
\* executeWithRetry line 51: BASE_DELAY * Math.pow(2, attempt)
BackoffDelay(attempt) == BASE_DELAY * Pow2(attempt)
\* performOCR lines 130-131: the wait, in ms, that the error message of a
\* 429 carries
RetryAfterWait(retryAfter) ==
    IF retryAfter # None THEN retryAfter * 1000 ELSE 5000
\* executeWithRetry line 50: a 429 that is followed by a timed retry
RetriesWithBackoff(kind, attempt) == kind = "429" /\ attempt < MAX_RETRIES - 1
\* executeWithRetry line 59: the error that is thrown at once
ThrowsAtOnce(kind, attempt) == attempt = 0 /\ kind # "429"

\* --------------------------------------------- OfflineOCRService: the call
\* (mutant: an error of the recognizer is thrown on)
OfflineExtractThrows(recognized) ==
    [threw |-> ~recognized, text |-> IF recognized THEN "text" ELSE "empty"]
\* extractTextFromImage catches every error of the recognizer and returns
\* an empty result with confidence 0 (lines 110-121).
OfflineExtract(recognized) ==
    [threw |-> FALSE, text |-> IF recognized THEN "text" ELSE "empty"]

\* A settled promise resumes its awaiting caller before any timer or I/O
\* event is handled: while a call is "done" the only step is its Return.
NoneDone == \A c \in Calls : calls[c].pc # "done"

\* ---------------------------------------- SmartOCRService: status queries
\* (mutant: the expiry of the cooldown is not looked at)
CanUseOnlineByFlag == ~isTemporarilyOffline
\* getStatus line 224
CanUseOnline == ~isTemporarilyOffline \/ now >= offlineUntil
\* getStatus lines 216-225: the record it returns.
getStatus ==
    [isTemporarilyOffline |-> isTemporarilyOffline,
     consecutiveFailures |-> consecutiveFailures,
     offlineUntil |-> offlineUntil,
     timeUntilOnline |-> IF isTemporarilyOffline /\ offlineUntil - now > 0
                         THEN offlineUntil - now ELSE 0,
     canUseOnline |-> CanUseOnline]
\* getRecommendations lines 255-277: the recommended mode and the
\* estimated delay for the status it has read.
getRecommendations(status) ==
    IF status.isTemporarilyOffline
    THEN [recommendedMode |-> "offline", estimatedDelay |-> 1000]
    ELSE IF status.consecutiveFailures > 0
    THEN [recommendedMode |-> "auto", estimatedDelay |-> 3000]
    ELSE [recommendedMode |-> "auto", estimatedDelay |-> 2000]
\* The value a status query has returned to its caller.
Observation(op, status, recommendation) ==
    [op |-> op, status |-> status, recommendation |-> recommendation]
\* No status query has returned a value that its caller still looks at.
NoObservation ==
    Observation("none",
                [isTemporarilyOffline |-> FALSE, consecutiveFailures |-> 0,
                 offlineUntil |-> 0, timeUntilOnline |-> 0,
                 canUseOnline |-> FALSE],
                [recommendedMode |-> "none", estimatedDelay |-> 0])
\* getStatus and getRecommendations are synchronous: their caller has
\* used the value before anything else runs.
NoResultHeld == observed = NoObservation

\* ------------------------------------------- the document pipeline: data
\* A declared MIME type is represented by the set of dispatch substrings
\* of processDocument that it contains: application/pdf, the DOCX type,
\* the PPTX type, image/png, text/plain, application/zip.
MimeTypes ==
    {{"pdf"}, {"word", "officedocument.wordprocessingml"}, {"presentationml"},
     {"image"}, {"text"}, {}}
\* (mutant: a type that matches nothing is read as plain text)
DispatchOrText(mime) ==
    IF "pdf" \in mime THEN "pdf"
    ELSE IF "word" \in mime \/ "officedocument.wordprocessingml" \in mime THEN "docx"
    ELSE IF "powerpoint" \in mime \/ "presentationml" \in mime THEN "pptx"
    ELSE IF "image" \in mime THEN "image"
    ELSE "text"
\* processDocument lines 1064-1087: the first branch whose substring the
\* declared type includes.
Dispatch(mime) ==
    IF "pdf" \in mime THEN "pdf"
    ELSE IF "word" \in mime \/ "officedocument.wordprocessingml" \in mime THEN "docx"
    ELSE IF "powerpoint" \in mime \/ "presentationml" \in mime THEN "pptx"
    ELSE IF "image" \in mime THEN "image"
    ELSE IF "text" \in mime THEN "text"
    ELSE "unsupported"
\* processDocument line 1086: the error for a type no branch accepts.
UnsupportedError(mime) == [kind |-> "unsupported", mime |-> mime]
\* Any other error that ends the processing of a document.
OtherError(kind) == [kind |-> kind, mime |-> {}]
NoError == OtherError("none")

\* Lengths (after trim) of the texts a structural extractor finds.
Lengths == {0, 19, 20, 50, 51}
\* (mutant: OCR is asked for below 51 characters)
NeedsOCRUnder51(len) == len < 51
\* EnhancedPDFService.ts line 111, OfflineOCRService.ts line 361:
\* !text || text.trim().length < 20
NeedsOCR(len) == len < 20
\* (mutant: only a text of more than 100 characters is sufficient)
IsSufficientOver100(len, readable) == len > 100 /\ readable
\* EnhancedDOCXService.ts lines 37 and 147, PDFService.ts line 58:
\* text.length > 50 (for the basic PDF extractor with readableTextRatio > 0.5)
IsSufficient(len, readable) == len > 50 /\ readable
\* OfflineDOCXParser (part_006 lines 62-74): the least length of the text
\* returned when every offline method failed.
FailureMessageLength == 309
\* EnhancedPDFService.ts line 60
maxRetries == 2

\* The entry of a unit (PDFPageInfo, PPTXSlideInfo) whose processing
\* succeeded; text is "structural", "ocr" or "empty" (no text was found
\* and no OCR was possible).
UnitInfo(n, text, ocrUsed) ==
    [unitNumber |-> n, text |-> text, ocrUsed |-> ocrUsed,
     wordCount |-> IF text = "empty" THEN 0 ELSE 1]
\* EnhancedPDFService.ts lines 164-170, OfflineOCRService.ts lines 409-415
ErrorUnitInfo(n) ==
    [unitNumber |-> n, text |-> "error", ocrUsed |-> FALSE, wordCount |-> 0]
\* (mutant: a unit that failed leaves no entry)
WithoutErrorUnit(units, n) == units
\* EnhancedPDFService.ts line 172, OfflineOCRService.ts line 417
WithErrorUnit(units, n) == Append(units, ErrorUnitInfo(n))

\* No document is being processed.
IdleDoc ==
    [pc |-> "idle", caller |-> "none", name |-> 0, mime |-> {}, kind |-> "none",
     useOnlineOCR |-> FALSE, onProgress |-> "none", malformed |-> FALSE,
     totalUnits |-> 0, unitNum |-> 0, retryCount |-> 0,
     units |-> <<>>, combinedText |-> <<>>, failedUnits |-> {},
     structLen |-> None, readable |-> TRUE, ocrInvoked |-> FALSE,
     providers |-> {},
     text |-> "none", method |-> "none", warnings |-> {}, error |-> NoError]
\* No batch is being processed.
IdleBatch ==
    [pc |-> "idle", useOnlineOCR |-> FALSE, count |-> 0, index |-> 0,
     processedDocuments |-> <<>>, thrown |-> {}, malformed |-> {}]

\* ------------------------------------------------ chunkTextForAPI: data
\* The characters of a text: a letter, a period, a newline, a space.
Chars == {"a", ".", "nl", " "}
\* The texts of at most MaxTextLen characters.
Texts == UNION {[1..n -> Chars] : n \in 0..MaxTextLen}
\* The values of maxChunkSize.
ChunkSizes == {1, 2, 3}
\* String.prototype.lastIndexOf(ch, fromIndex): the greatest index (from 0)
\* not above fromIndex at which text has ch, or -1.
LastIndexOf(text, ch, fromIndex) ==
    LET at == {i \in 0..(Len(text) - 1) : i <= fromIndex /\ text[i + 1] = ch}
    IN  IF at = {} THEN -1 ELSE CHOOSE i \in at : \A j \in at : j <= i
\* String.prototype.slice(start, end) for 0 <= start
Slice(text, start, end) ==
    SubSeq(text, start + 1, IF end < Len(text) THEN end ELSE Len(text))
IsWhitespace(ch) == ch \in {"nl", " "}
RECURSIVE TrimStart(_)
TrimStart(text) ==
    IF text # <<>> /\ IsWhitespace(Head(text)) THEN TrimStart(Tail(text))
    ELSE text
RECURSIVE TrimEnd(_)
TrimEnd(text) ==
    IF text # <<>> /\ IsWhitespace(text[Len(text)])
    THEN TrimEnd(SubSeq(text, 1, Len(text) - 1))
    ELSE text
\* String.prototype.trim()
Trim(text) == TrimEnd(TrimStart(text))
\* Math.max
Max(a, b) == IF a >= b THEN a ELSE b
\* lines 1359-1370: the end of the chunk that starts at currentIndex.
\* (breakPoint > currentIndex + maxChunkSize * 0.7, in tenths)
ChunkEnd(text, maxChunkSize, currentIndex) ==
    LET chunkEnd == currentIndex + maxChunkSize
        lastPeriod == LastIndexOf(text, ".", chunkEnd)
        lastNewline == LastIndexOf(text, "nl", chunkEnd)
        breakPoint == Max(lastPeriod, lastNewline)
    IN  IF chunkEnd < Len(text)
             /\ 10 * breakPoint > 10 * currentIndex + 7 * maxChunkSize
        THEN breakPoint + 1
        ELSE chunkEnd
\* chunkTextForAPI is not running.
IdleChunker ==
    [pc |-> "idle", text |-> <<>>, maxChunkSize |-> 0, currentIndex |-> 0,
     chunks |-> <<>>]

\* ------------------------------------------------------------------ Init
Init ==
    /\ now = StartOfTime
    /\ ticks = 0
    /\ ops = 0
    /\ consecutiveFailures = 0
    /\ isTemporarilyOffline = FALSE
    /\ offlineUntil = 0
    /\ lastRequestTime = 0
    /\ calls = [c \in Calls |-> IdleCall]
    /\ streak = 0
    /\ streakAt = 0
    /\ lastSentAt = None
    /\ throttleBroken = FALSE
    /\ batch = IdleBatch
    /\ doc = IdleDoc
    /\ chunker = IdleChunker
    /\ observed = NoObservation

\* The call record r with the OCRResult res it returns.
Returned(r, res) ==
    [r EXCEPT !.source = res.source, !.fallbackUsed = res.fallbackUsed,
              !.text = res.text]

\* ------------------------------- SmartOCRService.extractTextFromImage
\* Lines 30-56, up to the first await: the cooldown check, the lazy exit
\* from cooldown, and the routing on preferredMode.
Start(c, m) ==
    /\ NoneDone /\ NoResultHeld
    /\ UNCHANGED <<docs, observed>>
    /\ calls[c].pc = "idle"
    /\ ops < MaxOps
    /\ ops' = ops + 1
    /\ LET base == [IdleCall EXCEPT
                       !.mode = m, !.atStart = HealthAt,
                       !.inWindow = (streak >= 2 /\ now < streakAt + OFFLINE_COOLDOWN)]
           toLocal(fb) == [base EXCEPT !.pc = "local", !.fallbackArg = fb]
           toRemote == [base EXCEPT !.pc = "attempt"]
       IN  IF InCooldown
           THEN /\ calls' = [calls EXCEPT ![c] = toLocal(TRUE)]
                /\ UNCHANGED health
           ELSE /\ IF CooldownExpired
                   THEN /\ isTemporarilyOffline' = FALSE
                        /\ consecutiveFailures' = CountAfterCooldown
                   ELSE UNCHANGED <<isTemporarilyOffline, consecutiveFailures>>
                /\ UNCHANGED offlineUntil
                /\ calls' = [calls EXCEPT ![c] =
                               IF m = "offline" THEN toLocal(FALSE) ELSE toRemote]
    /\ streak' = IF HealthAt = "expired" THEN 0 ELSE streak
    /\ UNCHANGED <<now, ticks, lastRequestTime, streakAt, sent>>

\* MistralOCRService.extractTextFromImage returned a text.
\* performOnlineOCR lines 106-114; auto mode: lines 56-60.
RemoteSucceeds(c) ==
    LET r == Returned([calls[c] EXCEPT !.pc = "done", !.remote = "ok"],
                      OnlineResult)
    IN  /\ calls' = [calls EXCEPT ![c] = r]
        /\ IF r.mode = "auto"
           THEN /\ consecutiveFailures' = 0
                /\ streak' = 0
           ELSE UNCHANGED <<consecutiveFailures, streak>>
        /\ UNCHANGED <<isTemporarilyOffline, offlineUntil, streakAt>>

\* MistralOCRService.extractTextFromImage threw.  performOnlineOCR rethrows
\* (lines 115-124); online mode: the error reaches the caller (line 51);
\* auto mode: lines 61-76.
RemoteFails(c, kind) ==
    LET r == [calls[c] EXCEPT !.remote = "fail"]
        cf == consecutiveFailures + 1
    IN  IF ~FallsBackToLocal(r.mode)
        THEN /\ calls' = [calls EXCEPT ![c] = [r EXCEPT !.pc = "done", !.threw = TRUE]]
             /\ UNCHANGED <<health, hist>>
        ELSE /\ consecutiveFailures' = cf
             /\ IF ShouldEnterCooldown(cf)
                THEN /\ isTemporarilyOffline' = TRUE
                     /\ offlineUntil' = CooldownExpiry(now)
                ELSE UNCHANGED <<isTemporarilyOffline, offlineUntil>>
             /\ calls' = [calls EXCEPT ![c] =
                            [r EXCEPT !.pc = "local", !.fallbackArg = TRUE,
                                      !.counted = TRUE]]
             /\ streak' = IF streak < 2 THEN streak + 1 ELSE streak
             /\ streakAt' = IF streak = 1 THEN now ELSE streakAt

\* ----------------------------------- MistralOCRService.executeWithRetry
\* The catch block of executeWithRetry (lines 43-62) and the end of the
\* loop (lines 40, 66), for an error of the given kind.  retryAfter is the
\* header of the 429 response; the call record keeps the instant up to
\* which the server asked the client to wait.
AttemptError(c, kind, retryAfter) ==
    LET a == calls[c].attempt
    IN  IF RetriesWithBackoff(kind, a)
        THEN /\ calls' = [calls EXCEPT ![c] =
                            [calls[c] EXCEPT
                                !.pc = "backoff",
                                !.wakeAt = now + BackoffDelay(a),
                                !.notBefore = now + BackoffDelay(a),
                                !.retryAfterUntil =
                                    IF retryAfter = None THEN 0
                                    ELSE now + RetryAfterWait(retryAfter),
                                !.backoffs = Append(@, BackoffDelay(a))]]
             /\ UNCHANGED <<health, hist>>
        ELSE IF ThrowsAtOnce(kind, a)
        THEN RemoteFails(c, kind)
        ELSE IF a + 1 < MAX_RETRIES
        THEN /\ calls' = [calls EXCEPT ![c] =
                            [calls[c] EXCEPT !.pc = "attempt", !.attempt = a + 1]]
             /\ UNCHANGED <<health, hist>>
        ELSE RemoteFails(c, kind)

\* performOCR lines 73-80 with enforceRateLimit lines 156-165, up to the
\* await of the timer or, when no wait is needed, of the image fetch.
BeginAttempt(c, keyConfigured) ==
    /\ NoneDone /\ NoResultHeld
    /\ UNCHANGED <<docs, observed>>
    /\ calls[c].pc = "attempt"
    /\ IF ~keyConfigured
       THEN /\ AttemptError(c, "other", None)
            /\ UNCHANGED lastRequestTime
       ELSE LET w == RateLimitWait(now, lastRequestTime)
            IN  /\ IF w > 0
                   THEN /\ calls' = [calls EXCEPT ![c] =
                                       [calls[c] EXCEPT !.pc = "rlwait",
                                                        !.wakeAt = now + w]]
                        /\ UNCHANGED lastRequestTime
                   ELSE /\ calls' = [calls EXCEPT ![c] =
                                       [calls[c] EXCEPT !.pc = "convert"]]
                        /\ lastRequestTime' = now
                /\ UNCHANGED <<health, hist>>
    /\ UNCHANGED <<now, ticks, ops, sent>>

\* enforceRateLimit line 165, after the timer of line 162 fired.
RateLimitWake(c) ==
    /\ NoneDone /\ NoResultHeld
    /\ UNCHANGED <<docs, observed>>
    /\ calls[c].pc = "rlwait"
    /\ now >= calls[c].wakeAt
    /\ lastRequestTime' = now
    /\ calls' = [calls EXCEPT ![c] = [calls[c] EXCEPT !.pc = "convert", !.wakeAt = 0]]
    /\ UNCHANGED <<now, ticks, ops, health, hist, sent>>

\* performOCR lines 86-88: reading the image fails, no request goes out.
ConvertFail(c) ==
    /\ NoneDone /\ NoResultHeld
    /\ UNCHANGED <<docs, observed>>
    /\ calls[c].pc = "convert"
    /\ AttemptError(c, "other", None)
    /\ UNCHANGED <<now, ticks, ops, lastRequestTime, sent>>

\* performOCR line 92: the POST to the remote API is issued.
Send(c) ==
    /\ NoneDone /\ NoResultHeld
    /\ UNCHANGED <<docs, observed>>
    /\ calls[c].pc = "convert"
    /\ calls' = [calls EXCEPT ![c] =
                   [calls[c] EXCEPT !.pc = "inflight", !.retryAfterUntil = 0]]
    /\ lastSentAt' = now
    /\ throttleBroken' = (throttleBroken \/
                            (lastSentAt # None /\ now - lastSentAt < MIN_REQUEST_INTERVAL))
    /\ UNCHANGED <<now, ticks, ops, lastRequestTime, health, hist>>

\* performOCR lines 122-145: the response arrives; "429" and "other" are
\* the two kinds of error message executeWithRetry tells apart, and
\* retryAfter is the retry-after header a 429 may carry.
Respond(c, r, retryAfter) ==
    /\ NoneDone /\ NoResultHeld
    /\ UNCHANGED <<docs, observed>>
    /\ calls[c].pc = "inflight"
    /\ r # "429" => retryAfter = None
    /\ IF r = "ok" THEN RemoteSucceeds(c) ELSE AttemptError(c, r, retryAfter)
    /\ UNCHANGED <<now, ticks, ops, lastRequestTime, sent>>

\* executeWithRetry lines 53-54: the backoff timer fired, next iteration.
BackoffWake(c) ==
    /\ NoneDone /\ NoResultHeld
    /\ UNCHANGED <<docs, observed>>
    /\ calls[c].pc = "backoff"
    /\ now >= calls[c].wakeAt
    /\ calls' = [calls EXCEPT ![c] =
                   [calls[c] EXCEPT !.pc = "attempt", !.attempt = @ + 1, !.wakeAt = 0]]
    /\ UNCHANGED <<now, ticks, ops, lastRequestTime, health, hist, sent>>

\* ------------------------------------- SmartOCRService.performOfflineOCR
\* Lines 137-145, and for the fallback of auto mode the catch of lines
\* 77-95.  recognized: whether the device recognizer produced a result.
LocalDone(c, recognized) ==
    /\ NoneDone /\ NoResultHeld
    /\ UNCHANGED <<docs, observed>>
    /\ calls[c].pc = "local"
    /\ LET o == OfflineExtract(recognized)
           r == [calls[c] EXCEPT !.pc = "done",
                                 !.local = IF recognized THEN "ok" ELSE "fail"]
       IN  calls' = [calls EXCEPT ![c] =
              IF ~o.threw
              THEN Returned(r, OfflineResult(o, r.fallbackArg))
              ELSE IF r.remote = "fail"
              THEN Returned(r, DiagnosticResult)
              ELSE [r EXCEPT !.threw = TRUE]]
    /\ UNCHANGED <<now, ticks, ops, lastRequestTime, health, hist, sent>>

\* The awaiting caller resumes with the result (or the error); the slot is
\* free for the next call.
Return(c) ==
    /\ calls[c].pc = "done"
    /\ UNCHANGED <<docs, observed>>
    /\ calls' = [calls EXCEPT ![c] = IdleCall]
    /\ UNCHANGED <<now, ticks, ops, lastRequestTime, health, hist, sent>>

\* SmartOCRService.resetFailureTracking, lines 231-236.
ResetFailureTracking ==
    /\ NoneDone /\ NoResultHeld
    /\ UNCHANGED <<docs, observed>>
    /\ ops < MaxOps
    /\ ops' = ops + 1
    /\ consecutiveFailures' = 0
    /\ isTemporarilyOffline' = FALSE
    /\ offlineUntil' = 0
    /\ streak' = 0
    /\ UNCHANGED <<now, ticks, lastRequestTime, calls, streakAt, sent>>

\* SmartOCRService.forceOfflineMode, lines 241-245.
ForceOfflineMode(durationMs) ==
    /\ NoneDone /\ NoResultHeld
    /\ UNCHANGED <<docs, observed>>
    /\ ops < MaxOps
    /\ ops' = ops + 1
    /\ isTemporarilyOffline' = TRUE
    /\ offlineUntil' = now + durationMs
    /\ streak' = 0
    /\ UNCHANGED <<now, ticks, consecutiveFailures, lastRequestTime, calls,
                   streakAt, sent>>

\* SmartOCRService.getStatus, lines 209-226.
GetStatus ==
    /\ NoneDone /\ NoResultHeld
    /\ ops < MaxOps
    /\ ops' = ops + 1
    /\ observed' = Observation("getStatus", getStatus,
                               NoObservation.recommendation)
    /\ UNCHANGED <<now, ticks, lastRequestTime, calls, health, hist, sent, docs>>

\* SmartOCRService.getRecommendations, lines 250-278.
GetRecommendations ==
    /\ NoneDone /\ NoResultHeld
    /\ ops < MaxOps
    /\ ops' = ops + 1
    /\ LET status == getStatus
       IN  observed' = Observation("getRecommendations", status,
                                   getRecommendations(status))
    /\ UNCHANGED <<now, ticks, lastRequestTime, calls, health, hist, sent, docs>>

\* The caller of a status query has used the value.
UseObservation ==
    /\ ~NoResultHeld
    /\ observed' = NoObservation
    /\ UNCHANGED <<now, ticks, ops, lastRequestTime, calls, health, hist, sent,
                   docs>>

\* ------------------------------------------------------------- the clock
\* Date.now() advances to the next moment at which something can change:
\* a pending timer, or the edge of the cooldown (one quantum before the
\* expiry, the expiry, one quantum after it).
TickTargets ==
    {t \in ({calls[c].wakeAt : c \in {d \in Calls : calls[d].pc \in {"rlwait", "backoff"}}}
            \cup {offlineUntil - Quantum, offlineUntil, offlineUntil + Quantum}) : t > now}

Tick(t) ==
    /\ NoneDone /\ NoResultHeld
    /\ UNCHANGED <<docs, observed>>
    /\ ticks < MaxTicks
    /\ t \in TickTargets
    /\ now' = t
    /\ ticks' = ticks + 1
    /\ UNCHANGED <<ops, lastRequestTime, calls, health, hist, sent>>

\* The pipeline awaits each OCR call before it issues the next one
\* (EnhancedPDFService.ts line 115, OfflineOCRService.ts lines 369 and 1289).
SequentialStart(m) ==
    /\ \A c \in Calls : calls[c].pc = "idle"
    /\ Start(1, m)

Next ==
    \/ \E m \in Modes : SequentialStart(m)
    \/ \E c \in Calls, k \in BOOLEAN : BeginAttempt(c, k)
    \/ \E c \in Calls : RateLimitWake(c)
    \/ \E c \in Calls : ConvertFail(c)
    \/ \E c \in Calls : Send(c)
    \/ \E c \in Calls, r \in {"ok", "429", "other"}, h \in RetryAfterHeaders :
          Respond(c, r, h)
    \/ \E c \in Calls : BackoffWake(c)
    \/ \E c \in Calls, ok \in BOOLEAN : LocalDone(c, ok)
    \/ \E c \in Calls : Return(c)
    \/ ResetFailureTracking
    \/ \E d \in ForceDurations : ForceOfflineMode(d)
    \/ GetStatus
    \/ GetRecommendations
    \/ UseObservation
    \/ \E t \in TickTargets : Tick(t)

Spec == Init /\ [][Next]_vars

\* Calls whose executions overlap: a caller that no longer awaits a call
\* (the page timeout of EnhancedPDFService.ts lines 77-79 and 134 abandons
\* it without cancelling it) starts the next one while it is in flight.
\* The responses carry no retry-after header.
NextOverlap ==
    \/ \E c \in Calls, m \in Modes : Start(c, m)
    \/ \E c \in Calls, k \in BOOLEAN : BeginAttempt(c, k)
    \/ \E c \in Calls : RateLimitWake(c)
    \/ \E c \in Calls : ConvertFail(c)
    \/ \E c \in Calls : Send(c)
    \/ \E c \in Calls, r \in {"ok", "429", "other"} : Respond(c, r, None)
    \/ \E c \in Calls : BackoffWake(c)
    \/ \E c \in Calls, ok \in BOOLEAN : LocalDone(c, ok)
    \/ \E c \in Calls : Return(c)
    \/ \E t \in TickTargets : Tick(t)

SpecOverlap == Init /\ [][NextOverlap]_vars

\* ====================================================== document pipeline
\* SmartOCRService mode the extractors ask for
\* (EnhancedPDFService.ts line 114, OfflineOCRService.ts lines 368 and 1288,
\* EnhancedDOCXService.ts line 190).
OcrMode(useOnlineOCR) == IF useOnlineOCR THEN "auto" ELSE "offline"

\* --------------------------- DocumentProcessingService.processBatch
\* Lines 1119-1122: a batch of n documents starts.
ProcessBatch(n, useOnlineOCR) ==
    /\ batch.pc = "idle" /\ doc.pc = "idle"
    /\ batch' = [IdleBatch EXCEPT !.pc = "running", !.count = n,
                                  !.useOnlineOCR = useOnlineOCR]
    /\ UNCHANGED <<doc, chunker, services>>

\* processBatch line 1127 with processDocument lines 1053-1087: the next
\* document of the batch, of the declared type mime, is dispatched.
ProcessDocument(mime) ==
    /\ batch.pc = "running" /\ doc.pc = "idle"
    /\ batch.index < batch.count
    /\ LET kind == Dispatch(mime)
           d == [IdleDoc EXCEPT !.caller = "batch", !.name = batch.index + 1,
                                !.mime = mime,
                                !.useOnlineOCR = batch.useOnlineOCR]
       IN  doc' =
             IF kind = "unsupported"
             THEN [d EXCEPT !.pc = "threw", !.error = UnsupportedError(mime)]
             ELSE [d EXCEPT !.kind = kind,
                            !.pc = CASE kind = "pdf" -> "open"
                                     [] kind = "pptx" -> "open"
                                     [] kind = "docx" -> "mammoth"
                                     [] OTHER -> kind,
                            \* processPDF passes a callback that logs (lines
                            \* 1166-1168), processPPTX passes none (line 1248)
                            !.onProgress = IF kind = "pdf" THEN "logs" ELSE "none"]
    /\ UNCHANGED <<batch, chunker, services>>

\* EnhancedPDFService.extractTextFromPDF and
\* EnhancedPPTXService.extractTextFromPPTX called by another client, with a
\* callback of its own.
CallExtractor(kind, useOnlineOCR, onProgress) ==
    /\ batch.pc = "idle" /\ doc.pc = "idle"
    /\ doc' = [IdleDoc EXCEPT !.caller = "direct", !.kind = kind, !.pc = "open",
                              !.useOnlineOCR = useOnlineOCR,
                              !.onProgress = onProgress]
    /\ UNCHANGED <<batch, chunker, services>>

\* EnhancedPDFService.ts lines 42-56, OfflineOCRService.ts lines 319-344:
\* the container is read and the units are counted; when that fails the
\* extractor throws (lines 217-220, 442-445), processPDF falls back to the
\* basic extractor (lines 1186-1191) and processPPTX returns instructions
\* (lines 1259-1277).
OpenContainer(opens, n) ==
    /\ doc.pc = "open"
    /\ doc' =
         IF opens
         THEN [doc EXCEPT !.totalUnits = n,
                          !.pc = IF n = 0 THEN "extracted" ELSE "units"]
         ELSE LET d == [doc EXCEPT !.malformed = TRUE] IN
              IF doc.caller = "direct"
              THEN [d EXCEPT !.pc = "threw", !.error = OtherError("container")]
              ELSE IF doc.kind = "pdf"
              THEN [d EXCEPT !.pc = "basic", !.warnings = @ \cup {"enhancedFailed"}]
              ELSE [d EXCEPT !.pc = "returned", !.text = "instructions",
                             !.warnings = @ \cup {"pptxFailed"}]
    /\ UNCHANGED <<batch, chunker, services>>

\* The loop goes on to the unit after n (EnhancedPDFService.ts lines 67,
\* 74 and 156; OfflineOCRService.ts line 347).
NextUnit(d, n) ==
    [d EXCEPT !.unitNum = n, !.retryCount = 0,
              !.pc = IF n = d.totalUnits THEN "extracted" ELSE "units"]

\* The state of the unit n of d after an attempt that found a structural
\* text of length len and, when needed and possible, asked for OCR.
Attempted(d, len, needsOcr) ==
    [d EXCEPT !.structLen = len, !.readable = TRUE, !.ocrInvoked = needsOcr,
              !.providers = IF needsOcr THEN @ \cup {OcrMode(d.useOnlineOCR)}
                            ELSE @]

\* EnhancedPDFService.ts lines 136-148, OfflineOCRService.ts lines 380-392:
\* the entry of unit n is pushed and its section is added to combinedText.
Pushed(d, n, len, needsOcr) ==
    LET text == IF needsOcr THEN "ocr"
                ELSE IF len = 0 THEN "empty" ELSE "structural"
    IN  [d EXCEPT !.units = Append(@, UnitInfo(n, text, needsOcr)),
                  !.combinedText = Append(@, n)]

\* (mutant: one retry more before the page is given up)
PageCaughtOneMore(d, n) ==
    IF d.retryCount + 1 > maxRetries + 1
    THEN NextUnit([d EXCEPT !.units = WithErrorUnit(@, n),
                            !.failedUnits = @ \cup {n}], n)
    ELSE [d EXCEPT !.retryCount = @ + 1]
\* EnhancedPDFService.ts lines 158-178: the catch block of a page attempt.
PageCaught(d, n) ==
    IF d.retryCount + 1 > maxRetries
    THEN NextUnit([d EXCEPT !.units = WithErrorUnit(@, n),
                            !.failedUnits = @ \cup {n}], n)
    ELSE [d EXCEPT !.retryCount = @ + 1]

\* EnhancedPDFService.ts lines 74-179: one attempt at the next page.
\* timedOut: the 45 s timer won the race of line 134; imageOK: the page was
\* converted to an image; len: length of the text of the basic extraction
\* (0 when it failed).  The OCR call, when made, returns a text.
ProcessPage(timedOut, imageOK, len) ==
    /\ doc.pc = "units" /\ doc.kind = "pdf"
    /\ LET n == doc.unitNum + 1
           needsOcr == NeedsOCR(len) /\ imageOK
           d == Attempted(doc, len, needsOcr)
           pushed == Pushed(d, n, len, needsOcr)
       IN  doc' = IF timedOut THEN PageCaught(d, n)
                  ELSE IF doc.onProgress = "throws" THEN PageCaught(pushed, n)
                  ELSE NextUnit(pushed, n)
    /\ UNCHANGED <<batch, chunker, services>>

\* OfflineOCRService.ts lines 405-418: the catch block of a slide.
SlideCaught(d, n) ==
    NextUnit([d EXCEPT !.units = WithErrorUnit(@, n),
                       !.failedUnits = @ \cup {n}], n)

\* OfflineOCRService.ts lines 347-419: the next slide.  xmlOK: the slide
\* XML was read from the archive; len: length of the text found in it;
\* imageOK: a slide image was created; cleanupOK: the temporary image was
\* deleted (line 374).  The OCR call, when made, returns a text.
ProcessSlide(xmlOK, len, imageOK, cleanupOK) ==
    /\ doc.pc = "units" /\ doc.kind = "pptx"
    /\ LET n == doc.unitNum + 1
           needsOcr == NeedsOCR(len) /\ imageOK
           d == Attempted(doc, len, needsOcr)
           pushed == Pushed(d, n, len, needsOcr)
       IN  doc' = IF ~xmlOK
                  THEN SlideCaught([doc EXCEPT !.structLen = None,
                                               !.ocrInvoked = FALSE], n)
                  ELSE IF needsOcr /\ ~cleanupOK THEN SlideCaught(d, n)
                  ELSE IF doc.onProgress = "throws" THEN SlideCaught(pushed, n)
                  ELSE NextUnit(pushed, n)
    /\ UNCHANGED <<batch, chunker, services>>

\* EnhancedPDFService.ts lines 208-215, OfflineOCRService.ts lines 433-440:
\* the extractor returns; processPDF (lines 1171-1184) and processPPTX
\* (lines 1250-1257) pass combinedText on as the text of the document.
ReturnExtracted ==
    /\ doc.pc = "extracted"
    /\ doc' = IF doc.caller = "direct" THEN IdleDoc
              ELSE [doc EXCEPT !.pc = "returned", !.text = "combinedText"]
    /\ UNCHANGED <<batch, chunker, services>>

\* PDFService.ts lines 66-76: the OCR provider of the basic extractor.
BasicFallbackProvider(useOnlineOCR) ==
    IF useOnlineOCR THEN "online" ELSE "mistral"

\* processPDF lines 1190-1204 with PDFService.extractTextFromPDF lines
\* 10-82, called without its second argument (useOnlineOCR = false).
\* readOK: the file was read; len, readable: length of the text found and
\* whether more than half of it is letters; answered: the OCR provider
\* returned a text.
BasicPDF(readOK, len, readable, answered) ==
    /\ doc.pc = "basic"
    /\ len = 0 => ~readable
    /\ doc' =
         IF ~readOK
         THEN [doc EXCEPT !.pc = "threw", !.error = OtherError("pdf")]
         ELSE IF IsSufficient(len, readable)
         THEN [doc EXCEPT !.pc = "returned", !.text = "structural",
                          !.structLen = len, !.readable = readable]
         ELSE LET d == [doc EXCEPT !.structLen = len, !.readable = readable,
                                   !.ocrInvoked = TRUE,
                                   !.providers = @ \cup {BasicFallbackProvider(FALSE)}]
              IN  IF answered
                  THEN [d EXCEPT !.pc = "returned", !.text = "ocr"]
                  ELSE [d EXCEPT !.pc = "threw", !.error = OtherError("pdf")]
    /\ UNCHANGED <<batch, chunker, services>>

\* EnhancedDOCXService.extractTextFromDOCX lines 33-51 with
\* extractWithMammoth lines 72-130.  malformed: the file is not a readable
\* DOCX archive; len: length of the text mammoth returns.
Mammoth(malformed, len) ==
    /\ doc.pc = "mammoth"
    /\ doc' =
         IF malformed
         THEN [doc EXCEPT !.pc = "offline", !.malformed = TRUE,
                          !.warnings = @ \cup {"mammothError"}]
         ELSE IF len > 0 /\ IsSufficient(len, TRUE)
         THEN [doc EXCEPT !.pc = "returned", !.text = "structural",
                          !.method = "mammoth", !.structLen = len]
         ELSE [doc EXCEPT !.pc = "offline", !.structLen = len]
    /\ UNCHANGED <<batch, chunker, services>>

\* OfflineDOCXParser.extractTextOffline (part_006 lines 22-81): the text it
\* returns, its length and its warnings.  For an archive that cannot be
\* opened extractWithManualXML throws and the catch of lines 58-80 returns
\* a message; otherwise the cleaned text of one of the two methods, of
\* length len, is returned.
ExtractTextOffline(malformed, len) ==
    IF malformed
    THEN [text |-> "failureMessage", length |-> FailureMessageLength,
          warnings |-> {"extractionFailed"}, structLen |-> None]
    ELSE [text |-> IF len = 0 THEN "empty" ELSE "structural", length |-> len,
          warnings |-> {}, structLen |-> len]

\* EnhancedDOCXService.extractWithOfflineParser lines 142-176.
OfflineParser(len) ==
    /\ doc.pc = "offline"
    /\ LET offlineResult == ExtractTextOffline(doc.malformed, len)
           d == [doc EXCEPT !.warnings = @ \cup offlineResult.warnings,
                            !.structLen =
                                IF offlineResult.structLen > @
                                THEN offlineResult.structLen ELSE @]
       IN  doc' =
             IF IsSufficient(offlineResult.length, TRUE)
             THEN [d EXCEPT !.pc = "returned", !.text = offlineResult.text,
                            !.method = "offline_parser"]
             ELSE [d EXCEPT !.pc = "ocrFallback",
                            !.warnings = @ \cup {"insufficientText"}]
    /\ UNCHANGED <<batch, chunker, services>>

\* EnhancedDOCXService.extractWithOCRFallback lines 187-209.
OCRFallback(recognized) ==
    /\ doc.pc = "ocrFallback"
    /\ doc' = [doc EXCEPT !.pc = "returned", !.method = "ocr_fallback",
                          !.text = IF recognized THEN "ocr" ELSE "empty",
                          !.ocrInvoked = TRUE,
                          !.providers = @ \cup {OcrMode(doc.useOnlineOCR)},
                          !.warnings = @ \cup {"ocrFallback"}]
    /\ UNCHANGED <<batch, chunker, services>>

\* processImage lines 1284-1314.  readable: the image file can be read;
\* recognized: the OCR call returned a text.
ProcessImage(readable, recognized) ==
    /\ doc.pc = "image"
    /\ ~readable => ~recognized
    /\ doc' = [doc EXCEPT !.pc = "returned", !.malformed = ~readable,
                          !.text = IF recognized THEN "ocr" ELSE "noTextMessage",
                          !.ocrInvoked = TRUE,
                          !.providers = @ \cup {OcrMode(doc.useOnlineOCR)}]
    /\ UNCHANGED <<batch, chunker, services>>

\* processTextFile lines 1319-1329.
ProcessTextFile(readOK) ==
    /\ doc.pc = "text"
    /\ doc' = IF readOK
              THEN [doc EXCEPT !.pc = "returned", !.text = "structural"]
              ELSE [doc EXCEPT !.pc = "threw", !.malformed = TRUE,
                               !.error = OtherError("read")]
    /\ UNCHANGED <<batch, chunker, services>>

\* processDocument lines 1089-1109 and processBatch lines 1128-1132: the
\* document is added to processedDocuments, or its error is logged and
\* the loop goes on.  (A direct call of an extractor that threw ends.)
EndDocument ==
    /\ doc.pc \in {"returned", "threw"}
    /\ doc' = IdleDoc
    /\ IF doc.caller = "direct" THEN UNCHANGED batch
       ELSE batch' =
              [batch EXCEPT
                  !.index = @ + 1,
                  !.processedDocuments =
                      IF doc.pc = "returned"
                      THEN Append(@, [name |-> doc.name, type |-> doc.mime,
                                      extractedText |-> doc.text])
                      ELSE @,
                  !.thrown = IF doc.pc = "threw" THEN @ \cup {doc.name} ELSE @,
                  !.malformed = IF doc.malformed THEN @ \cup {doc.name} ELSE @]
    /\ UNCHANGED <<chunker, services>>

\* processBatch lines 1135-1150: the result is built and returned.
FinishBatch ==
    /\ batch.pc = "running" /\ doc.pc = "idle"
    /\ batch.index = batch.count
    /\ batch' = [batch EXCEPT !.pc = "finished"]
    /\ UNCHANGED <<doc, chunker, services>>

\* BatchProcessingResult (lines 1144-1150): the names of the documents the
\* result reports as failed.  It has the fields documents, combinedText,
\* totalWordCount, totalProcessingTime and summary, and none for failures.
ReportedFailures(b) == {}

NextDocs ==
    \/ \E n \in 0..MaxDocs, o \in BOOLEAN : ProcessBatch(n, o)
    \/ \E m \in MimeTypes : ProcessDocument(m)
    \/ \E k \in {"pdf", "pptx"}, o \in BOOLEAN, p \in {"none", "logs", "throws"} :
          CallExtractor(k, o, p)
    \/ \E o \in BOOLEAN, n \in 0..MaxUnits : OpenContainer(o, n)
    \/ \E t, i \in BOOLEAN, l \in Lengths : ProcessPage(t, i, l)
    \/ \E x, i, c \in BOOLEAN, l \in Lengths : ProcessSlide(x, l, i, c)
    \/ ReturnExtracted
    \/ \E f, r, a \in BOOLEAN, l \in Lengths : BasicPDF(f, l, r, a)
    \/ \E m \in BOOLEAN, l \in Lengths : Mammoth(m, l)
    \/ \E l \in Lengths : OfflineParser(l)
    \/ \E r \in BOOLEAN : OCRFallback(r)
    \/ \E f, r \in BOOLEAN : ProcessImage(f, r)
    \/ \E f \in BOOLEAN : ProcessTextFile(f)
    \/ EndDocument
    \/ FinishBatch

SpecDocs == Init /\ [][NextDocs]_vars

\* --------------------------- DocumentProcessingService.chunkTextForAPI
\* Lines 1350-1356: a text that fits is returned as the only chunk,
\* otherwise the loop starts.
ChunkTextForAPI(text, maxChunkSize) ==
    /\ chunker.pc = "idle"
    /\ chunker' =
         IF Len(text) <= maxChunkSize
         THEN [IdleChunker EXCEPT !.pc = "returned", !.text = text,
                                  !.maxChunkSize = maxChunkSize,
                                  !.chunks = <<text>>]
         ELSE [IdleChunker EXCEPT !.pc = "loop", !.text = text,
                                  !.maxChunkSize = maxChunkSize]
    /\ UNCHANGED <<batch, doc, services>>

\* Lines 1358-1374: one iteration of the while loop.
ChunkLoop ==
    /\ chunker.pc = "loop"
    /\ LET chunkEnd == ChunkEnd(chunker.text, chunker.maxChunkSize,
                                chunker.currentIndex)
       IN  chunker' =
             [chunker EXCEPT
                 !.chunks = Append(@, Trim(Slice(chunker.text,
                                                 chunker.currentIndex, chunkEnd))),
                 !.currentIndex = chunkEnd,
                 !.pc = IF chunkEnd < Len(chunker.text) THEN "loop"
                        ELSE "returned"]
    /\ UNCHANGED <<batch, doc, services>>

\* Line 1377: the chunks are returned.
ReturnChunks ==
    /\ chunker.pc = "returned"
    /\ chunker' = IdleChunker
    /\ UNCHANGED <<batch, doc, services>>

NextChunks ==
    \/ \E text \in Texts, size \in ChunkSizes : ChunkTextForAPI(text, size)
    \/ ChunkLoop
    \/ ReturnChunks

SpecChunks == Init /\ [][NextChunks]_vars

\* EnhancedPDFService.extractTextFromPDF on its own, called again and again
\* by a client whose onProgress callback, if it passes one, returns.
NextPages ==
    \/ \E o \in BOOLEAN, p \in {"none", "logs"} : CallExtractor("pdf", o, p)
    \/ \E o \in BOOLEAN, n \in 0..MaxUnits : OpenContainer(o, n)
    \/ \E t, i \in BOOLEAN, l \in Lengths : ProcessPage(t, i, l)
    \/ ReturnExtracted
    \/ EndDocument

\* Every attempt at a page ends: the work of lines 81-131 completes or the
\* 45 s timer of line 78 fires, and the waits of lines 176 and 183 are
\* timers too.
PagesFairness ==
    WF_vars(\E t, i \in BOOLEAN, l \in Lengths : ProcessPage(t, i, l))

SpecPages == Init /\ [][NextPages]_vars /\ PagesFairness

\* ================================================================ claims
RemotePhases == {"attempt", "rlwait", "convert", "inflight", "backoff"}
\* The call has handed the image to MistralOCRService.
RemoteAttempted(r) == r.pc \in RemotePhases \/ r.remote # "none"
\* The call has handed the image to OfflineOCRService.
LocalAttempted(r) == r.pc = "local" \/ r.local # "none"
Done(r) == r.pc = "done"

\* C1: an auto-mode call that starts less than 5 minutes after the second
\* of two auto-mode remote failures in a row (counted from a fresh arbiter
\* state, with no reset or forced cooldown in between) makes no remote
\* attempt and is served by the local provider.
CooldownTrigger ==
    \A c \in Calls :
        (calls[c].mode = "auto" /\ calls[c].inWindow)
            => /\ ~RemoteAttempted(calls[c])
               /\ LocalAttempted(calls[c])
               /\ (Done(calls[c]) => calls[c].source = "offline")

\* An auto-mode call made one quantum before the 5 minutes are over has
\* returned a local result.
CooldownTriggerWitness ==
    \E c \in Calls :
        /\ Done(calls[c]) /\ calls[c].mode = "auto" /\ calls[c].inWindow
        /\ now = streakAt + OFFLINE_COOLDOWN - Quantum
        /\ calls[c].source = "offline"

\* C2: an auto-mode call that finds the arbiter in cooldown with the clock
\* at or past offlineUntil attempts the remote provider.
CooldownExpiryRetriesRemote ==
    \A c \in Calls :
        (calls[c].mode = "auto" /\ calls[c].atStart = "expired")
            => RemoteAttempted(calls[c])

\* An auto-mode call made exactly at offlineUntil, with two or more failures
\* counted before, has got its answer from the remote provider.
CooldownExpiryWitness ==
    \E c \in Calls :
        /\ Done(calls[c]) /\ calls[c].mode = "auto"
        /\ calls[c].atStart = "expired" /\ calls[c].remote = "ok"
        /\ streakAt > 0 /\ now = offlineUntil

\* A step of call c while c is, or becomes, an offline-mode call.
OfflineStep(c) ==
    /\ calls'[c] # calls[c]
    /\ (calls[c].mode = "offline" \/ calls'[c].mode = "offline")

\* C3 as stated: no step of an offline-mode call attempts the remote
\* provider or changes consecutiveFailures, isTemporarilyOffline or
\* offlineUntil.
OfflineModeLeavesHealth ==
    [][\A c \in Calls :
         OfflineStep(c) => /\ ~RemoteAttempted(calls'[c])
                           /\ UNCHANGED health]_vars

\* C3 as amended: no step of an offline-mode call attempts the remote
\* provider or changes offlineUntil; the call changes isTemporarilyOffline
\* and consecutiveFailures only when it starts with the cooldown expired
\* (isTemporarilyOffline and now >= offlineUntil), and then it sets them to
\* false and 0.
OfflineModeHealthEffect ==
    [][\A c \in Calls :
         OfflineStep(c) =>
            /\ ~RemoteAttempted(calls'[c])
            /\ offlineUntil' = offlineUntil
            /\ IF calls[c].pc = "idle" /\ HealthAt = "expired"
               THEN isTemporarilyOffline' = FALSE /\ consecutiveFailures' = 0
               ELSE UNCHANGED <<isTemporarilyOffline, consecutiveFailures>>]_vars

\* An offline-mode call that started exactly at offlineUntil has returned
\* and the arbiter is out of cooldown with the counter at 0.
OfflineModeHealthWitness ==
    \E c \in Calls :
        /\ Done(calls[c]) /\ calls[c].mode = "offline"
        /\ calls[c].atStart = "expired" /\ now = offlineUntil
        /\ ~isTemporarilyOffline /\ consecutiveFailures = 0

\* C4 as stated: an offline-mode call returns a local result with
\* fallbackUsed = false in every arbiter state.
OfflineModeNeverFallback ==
    \A c \in Calls :
        (Done(calls[c]) /\ calls[c].mode = "offline")
            => calls[c].source = "offline" /\ ~calls[c].fallbackUsed

\* C4 as amended: an offline-mode call returns (never throws) a local
\* result; its fallbackUsed flag is true when the call found an unexpired
\* cooldown and false otherwise.
OfflineModeResult ==
    \A c \in Calls :
        (Done(calls[c]) /\ calls[c].mode = "offline")
            => /\ calls[c].source = "offline"
               /\ ~calls[c].threw
               /\ ~RemoteAttempted(calls[c])
               /\ (calls[c].fallbackUsed <=> calls[c].atStart = "cooldown")

\* Scenario B: an offline-mode call outside cooldown returned the text of
\* the local recognizer, not flagged as a fallback.
OfflineModeResultWitness ==
    \E c \in Calls :
        /\ Done(calls[c]) /\ calls[c].mode = "offline"
        /\ calls[c].atStart = "normal" /\ calls[c].local = "ok"
        /\ calls[c].source = "offline" /\ ~calls[c].fallbackUsed

\* What an online-mode call does once it is past the cooldown check.
OnlineModeUsesRemote(r) ==
    /\ RemoteAttempted(r)
    /\ ~LocalAttempted(r)
    /\ Done(r) => /\ r.remote \in {"ok", "fail"}
                  /\ r.remote = "ok" => (r.source = "mistral" /\ ~r.threw)
                  /\ r.remote = "fail" => r.threw

\* C5 as stated: an online-mode call calls the remote provider in every
\* arbiter state, returns its result or propagates its error, and never
\* calls the local provider.
OnlineModeAlwaysRemote ==
    \A c \in Calls : calls[c].mode = "online" => OnlineModeUsesRemote(calls[c])

\* C5 as amended: an online-mode call that does not find an unexpired
\* cooldown calls the remote provider, returns its result or propagates
\* its error, and never calls the local provider; one that finds an
\* unexpired cooldown calls only the local provider and returns its result
\* with fallbackUsed = true.
OnlineModeRouting ==
    \A c \in Calls :
        calls[c].mode = "online" =>
            IF calls[c].atStart = "cooldown"
            THEN /\ ~RemoteAttempted(calls[c])
                 /\ LocalAttempted(calls[c])
                 /\ Done(calls[c]) => /\ calls[c].source = "offline"
                                      /\ calls[c].fallbackUsed
                                      /\ ~calls[c].threw
            ELSE OnlineModeUsesRemote(calls[c])

\* An online-mode call outside cooldown whose remote attempt failed has
\* thrown the error to its caller without a local attempt.
OnlineModeRoutingWitness ==
    \E c \in Calls :
        /\ Done(calls[c]) /\ calls[c].mode = "online"
        /\ calls[c].atStart # "cooldown"
        /\ calls[c].remote = "fail" /\ calls[c].threw
        /\ calls[c].local = "none"

\* C6: an auto-mode call never throws; after a failed remote attempt it
\* returns the local fallback's result with fallbackUsed = true, after a
\* successful one the remote result with fallbackUsed = false.
AutoModeNeverThrows ==
    \A c \in Calls :
        (Done(calls[c]) /\ calls[c].mode = "auto")
            => /\ ~calls[c].threw
               /\ calls[c].remote = "fail"
                    => /\ calls[c].local # "none"
                       /\ calls[c].source = "offline"
                       /\ calls[c].fallbackUsed
               /\ calls[c].remote = "ok"
                    => /\ calls[c].source = "mistral"
                       /\ ~calls[c].fallbackUsed

\* An auto-mode call whose remote attempt failed returned the text of the
\* local recognizer, flagged as a fallback.
AutoModeNeverThrowsWitness ==
    \E c \in Calls :
        /\ Done(calls[c]) /\ calls[c].mode = "auto"
        /\ calls[c].remote = "fail" /\ calls[c].local = "ok"
        /\ calls[c].source = "offline" /\ calls[c].fallbackUsed
        /\ ~calls[c].threw

\* C7 as stated: when the remote attempt and the local recognition both
\* fail, an auto-mode call returns the diagnostic result that embeds both
\* error messages.
BothFailGivesDiagnostic ==
    \A c \in Calls :
        (Done(calls[c]) /\ calls[c].mode = "auto"
            /\ calls[c].remote = "fail" /\ calls[c].local = "fail")
            => ~calls[c].threw /\ calls[c].text = "diagnostic"

\* C8 as stated: when a call returns after a successful remote attempt, in
\* auto or online mode, consecutiveFailures is 0.
RemoteSuccessResetsCounter ==
    \A c \in Calls :
        (Done(calls[c]) /\ calls[c].remote = "ok") => consecutiveFailures = 0

IsPrefix(s, t) == Len(s) <= Len(t) /\ \A i \in 1..Len(s) : s[i] = t[i]

\* C9: a call makes at most 3 attempts; the backoff after the first 429 is
\* 2000 ms and after the second 4000 ms, and no attempt starts before its
\* backoff is over; an auto-mode call whose third attempt succeeds after
\* two 429 responses returns the remote result with fallbackUsed = false,
\* has counted no failure and leaves consecutiveFailures at 0.
RateLimitRetry ==
    \A c \in Calls :
        /\ calls[c].attempt + 1 <= 3
        /\ IsPrefix(calls[c].backoffs, <<2000, 4000>>)
        /\ calls[c].pc \in (RemotePhases \ {"backoff"}) => now >= calls[c].notBefore
        /\ (Done(calls[c]) /\ calls[c].mode = "auto" /\ calls[c].remote = "ok"
              /\ calls[c].backoffs = <<2000, 4000>>)
            => /\ calls[c].source = "mistral"
               /\ ~calls[c].fallbackUsed
               /\ ~calls[c].counted
               /\ calls[c].local = "none"
               /\ consecutiveFailures = 0

\* Scenario D: 429, 429, then success on the third attempt.
RateLimitRetryWitness ==
    \E c \in Calls :
        /\ Done(calls[c]) /\ calls[c].mode = "auto" /\ calls[c].remote = "ok"
        /\ calls[c].attempt = 2 /\ calls[c].backoffs = <<2000, 4000>>
        /\ calls[c].source = "mistral"

\* C10 as stated: any two requests sent to the remote API are at least
\* 5000 ms apart.
MinRequestInterval == ~throttleBroken

\* A step in which the auto-mode call c counts a remote failure (line 65).
CountsFailure(c) == ~calls[c].counted /\ calls'[c].counted

\* C16: the auto-mode remote failure that brings consecutiveFailures to 2
\* or more sets isTemporarilyOffline and sets offlineUntil to the time of
\* that failure plus 5 minutes; a counted failure that leaves the counter
\* below 2 changes neither, so a single failure from a fresh state leaves
\* the arbiter in NORMAL; and no other step of a call sets
\* isTemporarilyOffline.
CooldownEntry ==
    [][\A c \in Calls :
         /\ CountsFailure(c) =>
               /\ consecutiveFailures' = consecutiveFailures + 1
               /\ IF consecutiveFailures' >= 2
                  THEN /\ isTemporarilyOffline'
                       /\ offlineUntil' = now + 5 * 60 * 1000
                  ELSE UNCHANGED <<isTemporarilyOffline, offlineUntil>>
         /\ (CountsFailure(c) /\ consecutiveFailures = 0 /\ ~isTemporarilyOffline)
               => ~isTemporarilyOffline'
         /\ (calls'[c] # calls[c] /\ ~isTemporarilyOffline /\ isTemporarilyOffline')
               => (CountsFailure(c) /\ consecutiveFailures' >= 2)]_vars

\* An auto-mode call that started in NORMAL has just counted the second
\* failure: the cooldown runs for 5 minutes from this instant.
CooldownEntryWitness ==
    \E c \in Calls :
        /\ calls[c].pc = "local" /\ calls[c].counted
        /\ calls[c].mode = "auto" /\ calls[c].atStart = "normal"
        /\ consecutiveFailures = 2 /\ isTemporarilyOffline
        /\ offlineUntil = now + OFFLINE_COOLDOWN

\* A step in which call c starts (lines 30-56 of extractTextFromImage).
StartsCall(c) == calls[c].pc = "idle" /\ calls'[c].pc # "idle"

\* C17: a call that starts with isTemporarilyOffline set and the clock at
\* or past offlineUntil sets isTemporarilyOffline to false and
\* consecutiveFailures to 0 in its first step, before it is routed, and is
\* routed by its mode alone; when the remote attempt of such an auto-mode
\* call then fails, the counter goes to 1 and the failure does not set
\* isTemporarilyOffline.
LazyCooldownExit ==
    [][\A c \in Calls :
         /\ (StartsCall(c) /\ isTemporarilyOffline /\ now >= offlineUntil) =>
               /\ ~isTemporarilyOffline'
               /\ consecutiveFailures' = 0
               /\ calls'[c].pc = IF calls'[c].mode = "offline"
                                 THEN "local" ELSE "attempt"
         /\ (CountsFailure(c) /\ calls[c].atStart = "expired") =>
               /\ consecutiveFailures' = 1
               /\ isTemporarilyOffline' = isTemporarilyOffline]_vars

\* The first call after the expiry of a cooldown that two failures had
\* started has counted one failure, and the arbiter is still in NORMAL.
LazyCooldownExitWitness ==
    \E c \in Calls :
        /\ calls[c].pc = "local" /\ calls[c].counted
        /\ calls[c].mode = "auto" /\ calls[c].atStart = "expired"
        /\ streakAt > 0 /\ now >= streakAt + OFFLINE_COOLDOWN
        /\ consecutiveFailures = 1 /\ ~isTemporarilyOffline

\* A step of resetFailureTracking, read off its effect (lines 232-234).
IsResetStep ==
    /\ calls' = calls
    /\ consecutiveFailures' = 0 /\ ~isTemporarilyOffline' /\ offlineUntil' = 0
\* A step of forceOfflineMode, read off its effect (lines 242-243).
IsForceStep ==
    /\ calls' = calls
    /\ isTemporarilyOffline' /\ offlineUntil' > now
    /\ consecutiveFailures' = consecutiveFailures
\* A step in which a call starts with the clock at or past offlineUntil.
IsLazyExitStep == now >= offlineUntil /\ \E c \in Calls : StartsCall(c)

\* C18 as stated: isTemporarilyOffline changes from false to true only in
\* a step that leaves consecutiveFailures at 2 or more, and from true to
\* false only in the first step of a call made at or after offlineUntil.
CooldownFlagChanges ==
    [][/\ (~isTemporarilyOffline /\ isTemporarilyOffline')
             => consecutiveFailures' >= 2
       /\ (isTemporarilyOffline /\ ~isTemporarilyOffline')
             => IsLazyExitStep]_vars

\* C18 as amended: isTemporarilyOffline changes from false to true only
\* when a call counts a failure that leaves consecutiveFailures at 2 or
\* more, or in forceOfflineMode, whatever the counter is; it changes from
\* true to false only in the first step of a call made at or after
\* offlineUntil, or in resetFailureTracking, whatever the clock is.
CooldownFlagChangesWithAdmin ==
    [][/\ (~isTemporarilyOffline /\ isTemporarilyOffline')
             => \/ /\ \E c \in Calls : CountsFailure(c)
                   /\ consecutiveFailures' >= 2
                \/ IsForceStep
       /\ (isTemporarilyOffline /\ ~isTemporarilyOffline')
             => (IsLazyExitStep \/ IsResetStep)]_vars

\* forceOfflineMode has started a cooldown while no failure was counted.
CooldownFlagChangesWitness ==
    /\ isTemporarilyOffline /\ consecutiveFailures = 0 /\ now < offlineUntil
    /\ \A c \in Calls : calls[c].pc = "idle"

\* C19 as stated: an attempt that ends with an error that is not a 429 is
\* followed by no other attempt of that call, whatever its number and
\* whatever came before it.  A call passes to its next attempt either
\* through the backoff that follows a 429 or, without one, after an error
\* of another kind: every attempt after the first has its backoff.
NoRetryOfOtherErrors ==
    \A c \in Calls : calls[c].attempt <= Len(calls[c].backoffs)

\* C20 as stated: after a 429 response with a retry-after header of R
\* seconds, the next request of that call is not sent earlier than R
\* seconds after the response.
RetryAfterHonored ==
    [][\A c \in Calls :
         (calls[c].pc = "convert" /\ calls'[c].pc = "inflight")
            => now >= calls[c].retryAfterUntil]_vars

\* The entries of the unit list of the document d with unit number n.
EntriesOf(d, n) == {i \in 1..Len(d.units) : d.units[i].unitNumber = n}

\* C11: when EnhancedPDFService.extractTextFromPDF or
\* EnhancedPPTXService.extractTextFromPPTX returns, whatever timeouts,
\* extraction errors and OCR-stage errors the units met, the unit list has
\* exactly totalPages (totalSlides) entries, one per unit, and a unit whose
\* processing failed has the entry with the error text.  (The caller's
\* onProgress callback raises no error.)
UnitCount ==
    (doc.pc = "extracted" /\ doc.onProgress # "throws") =>
        /\ Len(doc.units) = doc.totalUnits
        /\ \A n \in 1..doc.totalUnits : Cardinality(EntriesOf(doc, n)) = 1
        /\ \A n \in doc.failedUnits :
              \A i \in EntriesOf(doc, n) :
                  doc.units[i].text = "error" /\ ~doc.units[i].ocrUsed

\* A PDF of two pages has been processed: page 1 timed out three times and
\* has the error entry, page 2 went through OCR.
UnitCountWitness ==
    /\ doc.pc = "extracted" /\ doc.kind = "pdf" /\ doc.onProgress # "throws"
    /\ doc.totalUnits = 2 /\ doc.failedUnits = {1}
    /\ Len(doc.units) = 2 /\ doc.units[2].text = "ocr"

\* The structural text of d is that of a page or slide of the enhanced
\* extractors (and not that of a whole document).
IsUnitText(d) == d.totalUnits > 0

\* C12 as stated: when the structural extraction of a unit has yielded a
\* text of 50 characters or more (for the basic PDF extractor: with more
\* than half of them letters), no OCR provider is invoked for that unit.
SufficiencyGate ==
    (doc.structLen # None /\ doc.structLen >= 50 /\ doc.readable)
        => ~doc.ocrInvoked

\* C12 as amended: no OCR provider is invoked for a page or slide of the
\* enhanced extractors whose structural text has 20 characters or more,
\* nor for a DOCX document or a PDF of the basic extractor whose
\* structural text has more than 50 characters (PDF: with more than half
\* of them letters).
SufficiencyGateStrict ==
    doc.structLen # None =>
        IF IsUnitText(doc)
        THEN doc.structLen >= 20 => ~doc.ocrInvoked
        ELSE (doc.structLen > 50 /\ doc.readable) => ~doc.ocrInvoked

\* The offline parser found 51 characters in a DOCX document for which
\* mammoth had found less: the text is returned, no OCR is made.
SufficiencyGateWitness ==
    /\ doc.pc = "returned" /\ doc.kind = "docx"
    /\ doc.method = "offline_parser" /\ doc.text = "structural"
    /\ doc.structLen = 51 /\ ~doc.ocrInvoked /\ doc.providers = {}

\* The declared type contains none of the substrings processDocument
\* looks for.
MatchesNoBranch(mime) ==
    mime \cap {"pdf", "word", "officedocument.wordprocessingml", "powerpoint",
               "presentationml", "image", "text"} = {}

\* C14: processDocument, given a declared type that matches none of the
\* dispatch substrings, throws the unsupported-type error that carries
\* that type, enters no branch of another type, runs no extractor and
\* invokes no OCR provider; processBatch lists no such document among the
\* processed ones.
UnsupportedTypeRejected ==
    /\ (doc.caller = "batch" /\ MatchesNoBranch(doc.mime)) =>
          /\ doc.pc = "threw"
          /\ doc.error.kind = "unsupported" /\ doc.error.mime = doc.mime
          /\ doc.kind = "none" /\ doc.text = "none"
          /\ doc.structLen = None /\ ~doc.ocrInvoked /\ doc.providers = {}
    /\ \A i \in 1..Len(batch.processedDocuments) :
          ~MatchesNoBranch(batch.processedDocuments[i].type)

\* The second document of a batch, of a type no branch accepts, has been
\* rejected after the first one was processed.
UnsupportedTypeWitness ==
    /\ doc.pc = "threw" /\ doc.caller = "batch" /\ doc.name = 2
    /\ MatchesNoBranch(doc.mime) /\ doc.error = UnsupportedError(doc.mime)
    /\ Len(batch.processedDocuments) = 1

\* The names (positions in the input) of the documents of the result.
ProcessedNames(b) ==
    {b.processedDocuments[i].name : i \in 1..Len(b.processedDocuments)}

\* C13 as stated: processBatch handles the documents one at a time in
\* input order and always finishes; a document that cannot be opened is
\* not among the successful results and is reported as failed, and every
\* other document of a supported type is among the successful results.
BatchResilience ==
    /\ batch.pc = "running" =>
          (doc.pc # "idle" => doc.name = batch.index + 1)
    /\ \A i, j \in 1..Len(batch.processedDocuments) :
          i < j => batch.processedDocuments[i].name
                      < batch.processedDocuments[j].name
    /\ batch.pc = "finished" =>
          /\ batch.index = batch.count
          /\ \A k \in batch.malformed :
                k \notin ProcessedNames(batch) /\ k \in ReportedFailures(batch)
          /\ \A k \in (1..batch.count) \ batch.malformed :
                k \in ProcessedNames(batch) \/ k \in batch.thrown

\* C15 as stated: a DOCX file whose archive cannot be opened by any
\* structural method is handed to the OCR fallback with a warning, and the
\* text returned for it is not the failure message of the offline parser.
MalformedDocxGoesToOcr ==
    (doc.pc = "returned" /\ doc.kind = "docx" /\ doc.malformed) =>
        /\ doc.ocrInvoked /\ doc.method = "ocr_fallback"
        /\ "extractionFailed" \in doc.warnings
        /\ doc.text # "failureMessage"

\* The entries of the unit list of doc that the step has added.
NewEntries == {i \in 1..Len(doc'.units) : i > Len(doc.units)}

PageStep == doc.pc = "units" /\ doc.kind = "pdf" /\ doc' # doc
\* The error entries of the unit list of d for the unit n.
ErrorEntriesOf(d, n) == {i \in EntriesOf(d, n) : d.units[i].text = "error"}

\* C22: a page of a PDF gets at most 3 attempts: an attempt that fails
\* (the 45 s timer won the race) is followed by another attempt at the same
\* page as long as fewer than 2 retries were made; the third failure
\* records the page, once, as an error unit with wordCount = 0 and
\* ocrUsed = false and the loop goes on to the next page; and
\* extractTextFromPDF, once in its page loop, always comes to return.
PageTimeoutRetry ==
    /\ [](doc.retryCount <= 2)
    /\ [](\A n \in 1..MaxUnits :
            /\ Cardinality(ErrorEntriesOf(doc, n)) <= 1
            /\ n \in doc.failedUnits => Cardinality(ErrorEntriesOf(doc, n)) = 1)
    /\ [][PageStep =>
            LET n == doc.unitNum + 1 IN
            IF doc'.unitNum = doc.unitNum
            THEN /\ doc'.retryCount = doc.retryCount + 1
                 /\ doc'.pc = "units"
                 /\ ErrorEntriesOf(doc', n) = {}
            ELSE /\ doc'.unitNum = n /\ doc'.retryCount = 0
                 /\ doc'.pc = IF n = doc.totalUnits THEN "extracted" ELSE "units"
                 /\ n \in doc'.failedUnits =>
                       /\ doc.retryCount = 2
                       /\ doc'.units[Len(doc'.units)] =
                             [unitNumber |-> n, text |-> "error",
                              ocrUsed |-> FALSE, wordCount |-> 0]]_vars
    /\ (doc.kind = "pdf" /\ doc.pc = "units") ~> (doc.pc = "extracted")

\* Page 1 of two has timed out three times and has its error entry; the
\* loop is at page 2.
PageTimeoutRetryWitness ==
    /\ doc.kind = "pdf" /\ doc.pc = "units"
    /\ doc.totalUnits = 2 /\ doc.unitNum = 1 /\ doc.retryCount = 0
    /\ doc.failedUnits = {1}
    /\ doc.units = <<[unitNumber |-> 1, text |-> "error", ocrUsed |-> FALSE,
                      wordCount |-> 0]>>

\* The call c has started and has not settled.
InFlight(c) == calls[c].pc \notin {"idle", "done"}

\* C23 as stated: no two extractTextFromImage calls made with the mode of
\* one document (auto, or offline) are in flight together.
OneCallAtATime ==
    \A c, d \in Calls :
        (c # d /\ calls[c].mode = calls[d].mode
             /\ calls[c].mode \in {"auto", "offline"})
            => ~(InFlight(c) /\ InFlight(d))

\* C24 as stated: consecutiveFailures is always one of 0, 1 and 2.
FailureCounterRange == consecutiveFailures \in 0..2

\* The OCR entry points that can send the document to a remote provider:
\* SmartOCRService in auto mode, OnlineOCRService, MistralOCRService.
MayCallRemote(provider) == provider \in {"auto", "online", "mistral"}

\* C25 as stated: while processDocument handles a document with
\* useOnlineOCR = false, no OCR entry point that can reach a remote
\* provider has been invoked for it.
OfflineOnlyStaysLocal ==
    (doc.caller = "batch" /\ ~doc.useOnlineOCR) =>
        \A p \in doc.providers : ~MayCallRemote(p)

\* C26 as stated: when the PDF or PPTX extractor returns, also to a caller
\* whose onProgress callback raised, the unit numbers of the unit list are
\* 1, 2, ..., N in this order, none of them twice.
UnitNumbersInOrder ==
    doc.pc = "extracted" =>
        /\ Len(doc.units) = doc.totalUnits
        /\ \A i \in 1..Len(doc.units) : doc.units[i].unitNumber = i

\* The unit numbers of the entries of the unit list of d, in order.
UnitNumbers(d) == [i \in 1..Len(d.units) |-> d.units[i].unitNumber]

\* C27 as stated: when extractTextFromPDF returns, the page numbers of the
\* '=== Page k ===' sections of combinedText are, in order, those of the
\* entries of the pages list, error entries included.
SectionPerEntry ==
    (doc.pc = "extracted" /\ doc.kind = "pdf") =>
        doc.combinedText = UnitNumbers(doc)

\* A step in which the status query op returns.
Returns(op) == observed.op = "none" /\ observed'.op = op

\* C28: getStatus changes no state of the arbiter, of the remote provider
\* or of a call, and returns the values the state holds; and whenever an
\* auto-mode call starts, it goes to the remote provider exactly when the
\* canUseOnline flag of getStatus, at that instant, is true.
StatusIsPureAndExact ==
    [][/\ Returns("getStatus") =>
             /\ UNCHANGED <<health, lastRequestTime, calls, now>>
             /\ observed'.status.canUseOnline
                   = (~isTemporarilyOffline \/ now >= offlineUntil)
             /\ observed'.status.consecutiveFailures = consecutiveFailures
             /\ observed'.status.isTemporarilyOffline = isTemporarilyOffline
             /\ observed'.status.offlineUntil = offlineUntil
       /\ \A c \in Calls :
             (StartsCall(c) /\ calls'[c].mode = "auto") =>
                 (getStatus.canUseOnline <=> RemoteAttempted(calls'[c]))]_vars

\* getStatus has returned canUseOnline = true while isTemporarilyOffline is
\* still set: the cooldown that two failures started has expired and no
\* call was made since.
StatusIsPureAndExactWitness ==
    /\ observed.op = "getStatus" /\ observed.status.canUseOnline
    /\ observed.status.isTemporarilyOffline
    /\ observed.status.timeUntilOnline = 0
    /\ isTemporarilyOffline /\ consecutiveFailures = 2 /\ now >= offlineUntil

\* C29 as stated: when getRecommendations has returned
\* recommendedMode = 'offline', the canUseOnline flag of getStatus at that
\* instant is false (the cooldown has not expired).
OfflineRecommendedOnlyInCooldown ==
    (observed.op = "getRecommendations"
        /\ observed.recommendation.recommendedMode = "offline")
        => ~getStatus.canUseOnline /\ now < offlineUntil

\* C30 as stated: every iteration of the loop of chunkTextForAPI moves
\* currentIndex forward (so the loop ends), and no chunk of the result is
\* longer than maxChunkSize.
ChunksWithinSize ==
    /\ chunker.pc = "loop" =>
          ChunkEnd(chunker.text, chunker.maxChunkSize, chunker.currentIndex)
              > chunker.currentIndex
    /\ chunker.pc = "returned" =>
          \A i \in 1..Len(chunker.chunks) :
              Len(chunker.chunks[i]) <= chunker.maxChunkSize

====
